---- MODULE Spec2Model ----
(***************************************************************************)
(* Model of crater-generate-report (src/main.rs): the ingestion of the     *)
(* regressed-logs archive into the record store, the per-record cause      *)
(* classification and bucketing loop, the crate-list side file and the     *)
(* rendering of the report table.                                          *)
(*                                                                         *)
(* Text is modelled as follows.  A crate name, a version and the content   *)
(* of crate-list.txt are sequences of character codes.  A log is a         *)
(* sequence of lines, each line a record saying which of the literal       *)
(* markers of main() it holds.  A toolchain label and a maintainer         *)
(* mention are sequences of string pieces.  The log URLs of a row are      *)
(* pure formatting of the configuration and the crate id and are not part  *)
(* of the model; a row keeps the crate id and the formatted owners.        *)
(***************************************************************************)
EXTENDS Integers, Sequences, FiniteSets, TLC

VARIABLES
    pc,           \* where main() is: "ingest", "aggregate", "render", "done", "aborted"
    cc_ty,        \* the detail policy parsed from the second argument
    seen,         \* history: the archive entries read so far
    regressions,  \* the record store, in key order
    i,            \* the number of records the aggregation loop has gone through
    crate_list,   \* the text of the crate list being built
    rows,         \* the table: cause -> rows, in key order
    crate_file,   \* crate-list.txt: None until written
    j,            \* the number of buckets rendered
    table,        \* the report lines rendered so far
    stdout,       \* the report written to standard output: None until written
    last_lookup,  \* history: the last request to crates.io and how it ended
    panic         \* the panic that ended the run, if any

vars == <<pc, cc_ty, seen, regressions, i, crate_list, rows, crate_file,
          j, table, stdout, last_lookup, panic>>

\* Number of archive entries the model reads from the tarball.
MaxEntries == 3

-----------------------------------------------------------------------------
\* Characters and strings

SLASH == 47
NL == 10
COMMA == 44
RPAREN == 41

NameA == <<97>>
NameB == <<98>>
NameBad == <<97, 41>>
Ver1 == <<49>>
Ver2 == <<50>>

\* Option<T>: None is the empty sequence, Some(v) the one-element sequence.
None == <<>>
Some(v) == <<v>>

\* str's Ord: lexicographic on the characters, a proper prefix is smaller.
StrLess(a, b) ==
    \E k \in 1..Len(b) :
        /\ k - 1 <= Len(a)
        /\ \A n \in 1..(k - 1) : a[n] = b[n]
        /\ (k > Len(a) \/ a[k] < b[k])

-----------------------------------------------------------------------------
\* CrateId

CratesIo(package, version) ==
    [tag |-> "CratesIo", package |-> package, version |-> version]

GitHub(user, repository) ==
    [tag |-> "GitHub", user |-> user, repository |-> repository]

\* #[derive(PartialOrd, Ord)]: the variants in declaration order, then the
\* fields in declaration order.
CrateId_lt(x, y) ==
    IF x.tag # y.tag
    THEN x.tag = "CratesIo" /\ y.tag = "GitHub"
    ELSE IF x.tag = "CratesIo"
         THEN \/ StrLess(x.package, y.package)
              \/ x.package = y.package /\ StrLess(x.version, y.version)
         ELSE \/ StrLess(x.user, y.user)
              \/ x.user = y.user /\ StrLess(x.repository, y.repository)

-----------------------------------------------------------------------------
\* Config and toolchain names

config ==
    [name |-> "pr-1",
     toolchains |-> << [type |-> "dist", name |-> "stable"],
                       [type |-> "ci", sha |-> "abc", try_ |-> TRUE] >>]

toolchain_name(cfg, ty) ==
    LET idx == IF ty = "Start" THEN 1 ELSE 2
        source == cfg.toolchains[idx]
    IN  IF source.type = "ci"
        THEN << (IF source.try_ THEN "try" ELSE "master"), "#", source.sha >>
        ELSE << source.name >>

\* The fifth path component with every ".txt" removed.
toolchain_of_path(component) ==
    SelectSeq(component, LAMBDA piece : piece # ".txt")

-----------------------------------------------------------------------------
\* Regression

Regression_new(id) == [id |-> id, start_log |-> None, end_log |-> None]

\* Regression::insert without its two assertions: a second log replaces the
\* first.
Regression_insert_overwrite(r, cfg, toolchain, log) ==
    IF toolchain_name(cfg, "Start") = toolchain
    THEN [panic |-> None, reg |-> [r EXCEPT !.start_log = Some(log)]]
    ELSE IF toolchain_name(cfg, "End") = toolchain
    THEN [panic |-> None, reg |-> [r EXCEPT !.end_log = Some(log)]]
    ELSE [panic |-> Some("unknown toolchain"), reg |-> r]

\* Regression::insert; the result is the record or the panic it raises.
Regression_insert(r, cfg, toolchain, log) ==
    IF toolchain_name(cfg, "Start") = toolchain
    THEN IF r.start_log # None
         THEN [panic |-> Some("replacing existing start log"), reg |-> r]
         ELSE [panic |-> None, reg |-> [r EXCEPT !.start_log = Some(log)]]
    ELSE IF toolchain_name(cfg, "End") = toolchain
    THEN IF r.end_log # None
         THEN [panic |-> Some("replacing existing start log"), reg |-> r]
         ELSE [panic |-> None, reg |-> [r EXCEPT !.end_log = Some(log)]]
    ELSE [panic |-> Some("unknown toolchain"), reg |-> r]

\* Regression::log: the unwrap of the slot.
Regression_log(r, ty) == IF ty = "Start" THEN r.start_log ELSE r.end_log

-----------------------------------------------------------------------------
\* BTreeMap<CrateId, Regression>, kept as the sequence of its values in key
\* order

InsertAt(s, p, v) == SubSeq(s, 1, p - 1) \o <<v>> \o SubSeq(s, p, Len(s))

regressions_index(regs, id) == CHOOSE k \in 1..Len(regs) : regs[k].id = id

\* An insertion-ordered map in place of the BTreeMap: a new id goes last.
regressions_entry_append(regs, id) ==
    IF \E k \in 1..Len(regs) : regs[k].id = id
    THEN regs
    ELSE Append(regs, Regression_new(id))

\* regressions.entry(res.clone()).or_insert_with(|| Regression::new(res))
regressions_entry(regs, id) ==
    IF \E k \in 1..Len(regs) : regs[k].id = id
    THEN regs
    ELSE InsertAt(regs,
                  1 + Cardinality({k \in 1..Len(regs) : CrateId_lt(regs[k].id, id)}),
                  Regression_new(id))

-----------------------------------------------------------------------------
\* The archive

Line(m, cap, name) == [m |-> m, cap |-> cap, name |-> name]

Other == Line("other", FALSE, <<>>)
LibTest == Line("lib-test", FALSE, <<>>)
DocTest == Line("doc-test", FALSE, <<>>)

StartLogs == { <<Other>> }

EndLogs ==
    { <<Other, Line("document", FALSE, NameA), Line("compile", TRUE, NameBad)>>,
      <<Line("compile", TRUE, NameA)>>,
      <<Line("compile", FALSE, NameB)>>,
      <<Line("document", TRUE, NameA)>>,
      <<LibTest>>,
      <<Other, DocTest>>,
      <<Line("compile", TRUE, NameA), LibTest>>,
      <<Line("compile", TRUE, NameA), Line("compile", TRUE, NameA)>> }

LabelStart == <<"stable", ".txt">>
LabelEnd == <<"try", "#", "abc", ".txt">>
LabelOther == <<"master", "#", "abc", ".txt">>

Paths ==
    { <<"reg", NameA, Ver1>>, <<"reg", NameA, Ver2>>, <<"reg", NameB, Ver1>>,
      <<"gh", NameA, NameB>> }

Entry(path, label, log) ==
    [kind |-> path[1], name |-> path[2], version_or_repo |-> path[3],
     toolchain |-> label, log |-> log]

ArchiveEntries ==
    {Entry(p, LabelStart, l) : p \in Paths, l \in StartLogs}
    \cup {Entry(p, LabelEnd, l) : p \in Paths, l \in EndLogs}
    \cup { Entry(<<"reg", NameA, Ver1>>, LabelOther, <<Other>>),
           Entry(<<"xx", NameA, Ver1>>, LabelEnd, <<Other>>) }

\* The match without its panics: any other component is taken as "reg".
CrateId_of_path_lenient(e) ==
    IF e.kind = "gh"
    THEN [panic |-> None, id |-> GitHub(e.name, e.version_or_repo)]
    ELSE [panic |-> None, id |-> CratesIo(e.name, e.version_or_repo)]

\* The match on the second path component; the result is the id or the panic.
CrateId_of_path(e) ==
    IF e.kind = "gh"
    THEN [panic |-> None, id |-> GitHub(e.name, e.version_or_repo)]
    ELSE IF e.kind = "reg"
    THEN [panic |-> None, id |-> CratesIo(e.name, e.version_or_repo)]
    ELSE [panic |-> Some("unexpected component"),
          id |-> CratesIo(e.name, e.version_or_repo)]

-----------------------------------------------------------------------------
\* SuspectedCause

CompileError(n) == [tag |-> "CompileError", crate_name |-> n]
DocumentaionError(n) == [tag |-> "DocumentaionError", crate_name |-> n]
TestFailure(n) == [tag |-> "TestFailure", crate_name |-> n]
DocTestFailure(n) == [tag |-> "DocTestFailure", crate_name |-> n]
Unknown == [tag |-> "Unknown"]

\* The position of a variant in the enum's declaration.
SuspectedCause_discriminant(c) ==
    CASE c.tag = "CompileError" -> 0
      [] c.tag = "DocumentaionError" -> 1
      [] c.tag = "TestFailure" -> 2
      [] c.tag = "DocTestFailure" -> 3
      [] c.tag = "Unknown" -> 4

\* #[derive(PartialOrd, Ord)] of SuspectedCause
SuspectedCause_lt(x, y) ==
    IF x.tag # y.tag
    THEN SuspectedCause_discriminant(x) < SuspectedCause_discriminant(y)
    ELSE x.tag # "Unknown" /\ StrLess(x.crate_name, y.crate_name)

\* SuspectedCause::crate_name
SuspectedCause_crate_name(c) ==
    IF c.tag = "Unknown" THEN None ELSE Some(c.crate_name)

-----------------------------------------------------------------------------
\* The classifier of main()

\* [Cc]ould not compile `([^)]+?)` on one line
compile_regex_is_match(l) ==
    l.m = "compile" /\ l.name # <<>> /\ \A k \in 1..Len(l.name) : l.name[k] # RPAREN

\* Could not document `([^`)]+?)` on one line
document_regex_is_match(l) ==
    /\ l.m = "document"
    /\ l.cap
    /\ l.name # <<>>
    /\ \A k \in 1..Len(l.name) : l.name[k] # RPAREN

\* The name of a source-repo crate cut down to its owner.
cause_name_user_only(id) ==
    IF id.tag = "CratesIo" THEN id.package ELSE id.user

\* The name a test failure is filed under (the second match on regression.id).
cause_name(id) ==
    IF id.tag = "CratesIo"
    THEN id.package
    ELSE id.user \o <<SLASH>> \o id.repository

\* The vector `crates` after the four pushes.
candidates(id, end_log) ==
    LET compiled == SelectSeq(end_log, compile_regex_is_match)
        documented == SelectSeq(end_log, document_regex_is_match)
    IN
    [k \in 1..Len(compiled) |-> CompileError(compiled[k].name)]
    \o [k \in 1..Len(documented) |-> DocumentaionError(documented[k].name)]
    \o (IF \E k \in 1..Len(end_log) : end_log[k].m = "lib-test"
        THEN <<TestFailure(cause_name(id))>> ELSE <<>>)
    \o (IF \E k \in 1..Len(end_log) : end_log[k].m = "doc-test"
        THEN <<DocTestFailure(cause_name(id))>> ELSE <<>>)

\* A classifier that breaks ties: the first candidate wins.
resolve_first(crates) ==
    IF Len(crates) >= 1 THEN crates[1] ELSE Unknown

\* if crates.len() == 1 { crates.pop() } else { Unknown }
resolve(crates) ==
    IF Len(crates) = 1 THEN crates[Len(crates)] ELSE Unknown

-----------------------------------------------------------------------------
\* The maintainer lookup

AT == 64
SPACE == 32
BACKTICK == 96

CcPrefix == <<59, 32, 99, 99, 32>>
NoOwner == <<110, 111, 32, 111, 119, 110, 101, 114, 63>>

GitHubPrefix == "https://github.com/"

\* What crates.io answers for a package when the request gets through.
CratesIoOwners(package) ==
    IF package = NameA
    THEN << [kind |-> "user", login |-> <<120>>, url |-> <<GitHubPrefix, "x">>],
            [kind |-> "team", login |-> <<116>>, url |-> <<GitHubPrefix, "t">>],
            [kind |-> "user", login |-> <<121>>, url |-> <<GitHubPrefix, "y">>] >>
    ELSE << [kind |-> "user", login |-> <<122>>, url |-> <<"https://gitlab.com/", "z">>] >>

NetOutcomes == {"ok", "json error", "send error"}

\* CratesIoUser::gh_username is Some
has_gh_username(u) == u.url[1] = GitHubPrefix /\ u.kind = "user"

\* owners_for_crate_name: a panic (send().unwrap()), Err (json()?), or Ok.
owners_for_crate_name(package, net) ==
    IF net = "send error"
    THEN [panic |-> Some("send failed"), ok |-> FALSE, v |-> <<>>]
    ELSE IF net = "json error"
    THEN [panic |-> None, ok |-> FALSE, v |-> <<>>]
    ELSE LET users == SelectSeq(CratesIoOwners(package), has_gh_username)
         IN  [panic |-> None, ok |-> TRUE,
              v |-> [k \in 1..Len(users) |-> users[k].login]]

\* CrateId::owners
CrateId_owners(id, net) ==
    IF id.tag = "CratesIo"
    THEN owners_for_crate_name(id.package, net)
    ELSE [panic |-> None, ok |-> TRUE, v |-> <<id.user>>]

RECURSIVE join(_, _)
join(parts, sep) ==
    IF parts = <<>> THEN <<>>
    ELSE IF Len(parts) = 1 THEN parts[1]
    ELSE parts[1] \o sep \o join(Tail(parts), sep)

format_owners_to_cc(owners) ==
    join([k \in 1..Len(owners) |-> <<AT>> \o owners[k]], <<COMMA, SPACE>>)

-----------------------------------------------------------------------------
\* BTreeMap<SuspectedCause, Vec<row>>, kept as the sequence of its entries in
\* key order

\* rows.insert(cause, vec![row]): a later row replaces the bucket.
rows_push_replace(rs, cause, row) ==
    IF \E k \in 1..Len(rs) : rs[k].cause = cause
    THEN [k \in 1..Len(rs) |->
            IF rs[k].cause = cause
            THEN [rs[k] EXCEPT !.affected = <<row>>]
            ELSE rs[k]]
    ELSE InsertAt(rs,
                  1 + Cardinality({k \in 1..Len(rs) : SuspectedCause_lt(rs[k].cause, cause)}),
                  [cause |-> cause, affected |-> <<row>>])

\* rows.entry(cause).or_insert_with(Vec::new).push(row)
rows_push(rs, cause, row) ==
    IF \E k \in 1..Len(rs) : rs[k].cause = cause
    THEN [k \in 1..Len(rs) |->
            IF rs[k].cause = cause
            THEN [rs[k] EXCEPT !.affected = Append(@, row)]
            ELSE rs[k]]
    ELSE InsertAt(rs,
                  1 + Cardinality({k \in 1..Len(rs) : SuspectedCause_lt(rs[k].cause, cause)}),
                  [cause |-> cause, affected |-> <<row>>])

-----------------------------------------------------------------------------
\* CcWho

CcWho_parse(arg) ==
    CASE arg = "all" -> "All"
      [] arg = "roots" -> "Roots"
      [] arg = "none" -> "None"
      [] arg = "print-list" -> "None"

\* causes() answering true under Roots as well.
CcWho_causes_with_roots(cc) == cc \in {"All", "Roots"}

CcWho_causes(cc) == cc = "All"

CcWho_roots(cc) == cc \in {"All", "Roots"}

-----------------------------------------------------------------------------
\* The crate list

\* The first match on regression.id: the text of one line of the list.
crate_list_id(id) ==
    IF id.tag = "CratesIo"
    THEN id.package
    ELSE id.user \o <<SLASH>> \o id.repository

\* str::trim_end_matches with a one-character pattern
RECURSIVE trim_end_matches(_, _)
trim_end_matches(s, ch) ==
    IF s # <<>> /\ s[Len(s)] = ch
    THEN trim_end_matches(SubSeq(s, 1, Len(s) - 1), ch)
    ELSE s

-----------------------------------------------------------------------------
\* The report

\* The line of a bucket of one row.
render_root(cc, row) ==
    [kind |-> "root", id |-> row.id,
     cc |-> IF CcWho_roots(cc) THEN CcPrefix \o row.owners ELSE <<>>]

\* Whether the header of a bucket asks crates.io for the cause's owners.
header_looks_up(cc, cause) ==
    CcWho_roots(cc) /\ SuspectedCause_crate_name(cause) # None

\* The header lookup with expect() in place of ok().
header_cc_expect(cc, cause, net) ==
    IF ~CcWho_roots(cc)
    THEN [panic |-> None, cc |-> <<>>]
    ELSE IF SuspectedCause_crate_name(cause) = None
    THEN [panic |-> None, cc |-> NoOwner]
    ELSE LET res == owners_for_crate_name(cause.crate_name, net)
         IN  IF res.panic # None \/ ~res.ok
             THEN [panic |-> Some("lookup failed"), cc |-> <<>>]
             ELSE [panic |-> None, cc |-> CcPrefix \o format_owners_to_cc(res.v)]

\* The end of the header line: the panic of the lookup, or the text.
header_cc(cc, cause, net) ==
    IF ~CcWho_roots(cc)
    THEN [panic |-> None, cc |-> <<>>]
    ELSE IF SuspectedCause_crate_name(cause) = None
    THEN [panic |-> None, cc |-> NoOwner]
    ELSE LET res == owners_for_crate_name(cause.crate_name, net)
         IN  IF res.panic # None
             THEN [panic |-> res.panic, cc |-> <<>>]
             ELSE IF res.ok
             THEN [panic |-> None, cc |-> CcPrefix \o format_owners_to_cc(res.v)]
             ELSE [panic |-> None, cc |-> NoOwner]

\* One line of the list under a header.
render_detail(cc, cause, row) ==
    LET author == IF cause = Unknown
                  THEN row.owners
                  ELSE <<BACKTICK>> \o row.owners \o <<BACKTICK>>
    IN  [kind |-> "detail", id |-> row.id,
         cc |-> IF CcWho_causes(cc) THEN CcPrefix \o author ELSE <<>>]

\* The lines one iteration of `for (cause, affected) in rows` writes.
render_bucket(cc, bucket, net) ==
    IF Len(bucket.affected) = 1
    THEN [panic |-> None, lines |-> <<render_root(cc, bucket.affected[1])>>]
    ELSE LET h == header_cc(cc, bucket.cause, net)
         IN  [panic |-> h.panic,
              lines |->
                 << [kind |-> "header", cause |-> bucket.cause,
                     count |-> Len(bucket.affected), cc |-> h.cc],
                    [kind |-> "details"] >>
                 \o [k \in 1..Len(bucket.affected) |->
                        render_detail(cc, bucket.cause, bucket.affected[k])]
                 \o << [kind |-> "end details"] >>]

-----------------------------------------------------------------------------
\* main()

Args == {"all", "roots", "none", "print-list"}

Init ==
    /\ pc = "ingest"
    /\ cc_ty \in {CcWho_parse(a) : a \in Args}
    /\ seen = {}
    /\ regressions = <<>>
    /\ i = 0
    /\ crate_list = <<>>
    /\ rows = <<>>
    /\ crate_file = None
    /\ j = 0
    /\ table = <<>>
    /\ stdout = None
    /\ last_lookup = None
    /\ panic = None

\* A panic: the process ends, nothing more is written.
Abort(msg) ==
    /\ pc' = "aborted"
    /\ panic' = msg

\* One iteration of `for entry in tarball.entries()?`.
Ingest ==
    /\ pc = "ingest"
    /\ Cardinality(seen) < MaxEntries
    /\ \E e \in ArchiveEntries :
        LET parsed == CrateId_of_path(e)
            regs == regressions_entry(regressions, parsed.id)
            k == regressions_index(regs, parsed.id)
            res == Regression_insert(regs[k], config,
                                     toolchain_of_path(e.toolchain), e.log)
        IN  /\ seen' = seen \cup {e}
            /\ IF parsed.panic # None
               THEN Abort(parsed.panic) /\ UNCHANGED regressions
               ELSE IF res.panic # None
               THEN Abort(res.panic) /\ UNCHANGED regressions
               ELSE /\ regressions' = [regs EXCEPT ![k] = res.reg]
                    /\ UNCHANGED <<pc, panic>>
    /\ UNCHANGED <<cc_ty, i, crate_list, rows, crate_file, j, table, stdout,
                   last_lookup>>

\* The archive has no more entries.
EndOfArchive ==
    /\ pc = "ingest"
    /\ pc' = "aggregate"
    /\ UNCHANGED <<cc_ty, seen, regressions, i, crate_list, rows, crate_file,
                   j, table, stdout, last_lookup, panic>>

\* The loop left after its first iteration.
regressions_exhausted_early(n, regs) == n >= 1 \/ n = Len(regs)

\* `for regression in regressions.values()` has no next value.
regressions_exhausted(n, regs) == n = Len(regs)

\* One iteration of `for regression in regressions.values()`.
ClassifyAndAggregate ==
    /\ pc = "aggregate"
    /\ ~regressions_exhausted(i, regressions)
    /\ LET regression == regressions[i + 1]
           end_log == Regression_log(regression, "End")
       IN  IF end_log = None
           THEN /\ Abort(Some("unwrap on None"))
                /\ UNCHANGED <<i, crate_list, rows, last_lookup>>
           ELSE \E net \in NetOutcomes :
                LET cause == resolve(candidates(regression.id, end_log[1]))
                    owners == CrateId_owners(regression.id, net)
                IN  /\ last_lookup' =
                           IF regression.id.tag = "CratesIo"
                           THEN Some([site |-> "crate",
                                      name |-> regression.id.package,
                                      net |-> net])
                           ELSE last_lookup
                    /\ IF owners.panic # None
                       THEN /\ Abort(owners.panic)
                            /\ UNCHANGED <<i, crate_list, rows>>
                       ELSE IF ~owners.ok
                       THEN /\ Abort(Some("expect on Err"))
                            /\ UNCHANGED <<i, crate_list, rows>>
                       ELSE /\ crate_list' = crate_list
                                    \o crate_list_id(regression.id) \o <<NL>>
                            /\ rows' = rows_push(rows, cause,
                                    [id |-> regression.id,
                                     owners |-> format_owners_to_cc(owners.v)])
                            /\ i' = i + 1
                            /\ UNCHANGED <<pc, panic>>
    /\ UNCHANGED <<cc_ty, seen, regressions, crate_file, j, table, stdout>>

\* std::fs::write("crate-list.txt", crate_list.trim_end_matches(","))
WriteCrateList ==
    /\ pc = "aggregate"
    /\ regressions_exhausted(i, regressions)
    /\ crate_file' = Some(trim_end_matches(crate_list, COMMA))
    /\ pc' = "render"
    /\ UNCHANGED <<cc_ty, seen, regressions, i, crate_list, rows, j, table,
                   stdout, last_lookup, panic>>

\* One iteration of `for (cause, affected) in rows`.
RenderBucket ==
    /\ pc = "render"
    /\ j < Len(rows)
    /\ \E net \in NetOutcomes :
        LET bucket == rows[j + 1]
            out == render_bucket(cc_ty, bucket, net)
        IN  /\ last_lookup' =
                   IF Len(bucket.affected) # 1 /\ header_looks_up(cc_ty, bucket.cause)
                   THEN Some([site |-> "cause",
                              name |-> bucket.cause.crate_name,
                              net |-> net])
                   ELSE last_lookup
            /\ IF out.panic # None
               THEN Abort(out.panic) /\ UNCHANGED <<j, table>>
               ELSE /\ table' = table \o out.lines
                    /\ j' = j + 1
                    /\ UNCHANGED <<pc, panic>>
    /\ UNCHANGED <<cc_ty, seen, regressions, i, crate_list, rows, crate_file,
                   stdout>>

\* std::io::stdout().write_all(table.as_bytes())
WriteReport ==
    /\ pc = "render"
    /\ j = Len(rows)
    /\ stdout' = Some(table)
    /\ pc' = "done"
    /\ UNCHANGED <<cc_ty, seen, regressions, i, crate_list, rows, crate_file,
                   j, table, last_lookup, panic>>

Next ==
    \/ Ingest
    \/ EndOfArchive
    \/ ClassifyAndAggregate
    \/ WriteCrateList
    \/ RenderBucket
    \/ WriteReport

Spec == Init /\ [][Next]_vars

-----------------------------------------------------------------------------
\* Helpers of the properties

\* The records the aggregation loop has gone through.
Processed == 1..i

\* The (bucket, position) pairs of the table that hold the id.
Places(id) ==
    {bp \in UNION {{<<b, p>> : p \in 1..Len(rows[b].affected)} : b \in 1..Len(rows)} :
        rows[bp[1]].affected[bp[2]].id = id}

\* The number of candidates the end log yields, counted marker by marker.
CompileMatches(log) == {p \in 1..Len(log) : compile_regex_is_match(log[p])}
DocumentMatches(log) == {p \in 1..Len(log) : document_regex_is_match(log[p])}
HasLibTest(log) == \E p \in 1..Len(log) : log[p].m = "lib-test"
HasDocTest(log) == \E p \in 1..Len(log) : log[p].m = "doc-test"

NumCandidates(log) ==
    Cardinality(CompileMatches(log)) + Cardinality(DocumentMatches(log))
    + (IF HasLibTest(log) THEN 1 ELSE 0) + (IF HasDocTest(log) THEN 1 ELSE 0)

\* The candidate of a log that yields exactly one.
OnlyCandidate(id, log) ==
    IF CompileMatches(log) # {}
    THEN CompileError(log[CHOOSE p \in CompileMatches(log) : TRUE].name)
    ELSE IF DocumentMatches(log) # {}
    THEN DocumentaionError(log[CHOOSE p \in DocumentMatches(log) : TRUE].name)
    ELSE IF HasLibTest(log)
    THEN TestFailure(cause_name(id))
    ELSE DocTestFailure(cause_name(id))

ExpectedCause(id, log) ==
    IF NumCandidates(log) = 1 THEN OnlyCandidate(id, log) ELSE Unknown

\* The aggregation loop has run to its end.
AggregationFinished == crate_file # None

-----------------------------------------------------------------------------
\* C1: every record the classifier has gone through is filed under exactly
\* one cause: the only candidate of its end log when the log yields exactly
\* one candidate, and Unknown when it yields none or more than one.
C1_ResolvedCause ==
    \A k \in Processed :
        LET r == regressions[k]
        IN  /\ Cardinality(Places(r.id)) = 1
            /\ \A bp \in Places(r.id) :
                  rows[bp[1]].cause = ExpectedCause(r.id, r.end_log[1])

\* A run that has filed a record with one candidate and a record with two.
C1_Witness ==
    /\ pc = "done"
    /\ \E k1, k2 \in Processed :
        /\ NumCandidates(regressions[k1].end_log[1]) = 1
        /\ NumCandidates(regressions[k2].end_log[1]) = 2
        /\ \E bp \in Places(regressions[k2].id) : rows[bp[1]].cause = Unknown
        /\ \E bp \in Places(regressions[k1].id) : rows[bp[1]].cause # Unknown

\* C2: once the aggregation loop has finished the buckets partition the
\* record store: every record is in exactly one bucket, once, the bucket of
\* its resolved cause; the buckets have distinct causes, hold nothing else,
\* and none is empty.
C2_Partition ==
    AggregationFinished =>
        /\ \A k \in 1..Len(regressions) :
              LET r == regressions[k]
              IN  /\ Cardinality(Places(r.id)) = 1
                  /\ \A bp \in Places(r.id) :
                        rows[bp[1]].cause = resolve(candidates(r.id, r.end_log[1]))
        /\ \A b \in 1..Len(rows) :
              /\ rows[b].affected # <<>>
              /\ \A p \in 1..Len(rows[b].affected) :
                    \E k \in 1..Len(regressions) :
                        regressions[k].id = rows[b].affected[p].id
        /\ \A b1, b2 \in 1..Len(rows) :
              rows[b1].cause = rows[b2].cause => b1 = b2

\* Three records in two buckets, two of them sharing the Unknown bucket.
C2_Witness ==
    /\ AggregationFinished
    /\ Len(regressions) = 3
    /\ Len(rows) = 2
    /\ \E b \in 1..Len(rows) :
          rows[b].cause = Unknown /\ Len(rows[b].affected) = 2

-----------------------------------------------------------------------------
\* The entries read so far that parse to the id and carry the label.
SlotEntries(id, label) ==
    {e \in seen : /\ e.kind \in {"gh", "reg"}
                  /\ CrateId_of_path(e).id = id
                  /\ e.toolchain = label}

SeenIds == {CrateId_of_path(e).id : e \in {x \in seen : x.kind \in {"gh", "reg"}}}

DuplicateSlotPanic == Some("replacing existing start log")

\* A slot that holds a log keeps that log.
SlotsKept ==
    \A k \in 1..Len(regressions) :
        \E n \in 1..Len(regressions') :
            /\ regressions'[n].id = regressions[k].id
            /\ regressions[k].start_log # None =>
                  regressions'[n].start_log = regressions[k].start_log
            /\ regressions[k].end_log # None =>
                  regressions'[n].end_log = regressions[k].end_log

\* C3: a log slot of the record store is written at most once, in any
\* arrival order: a second entry for a populated slot ends the run with the
\* duplicate-slot panic and leaves the slot as it was, and an identity that
\* has had one entry for each role has both logs in its record.
C3_SlotWrittenOnce ==
    /\ [][SlotsKept]_vars
    /\ [](\A id \in SeenIds : \A label \in {LabelStart, LabelEnd} :
            Cardinality(SlotEntries(id, label)) >= 2 =>
                pc = "aborted" /\ panic = DuplicateSlotPanic)
    /\ [](pc # "aborted" =>
            \A id \in SeenIds :
                \A s \in SlotEntries(id, LabelStart) :
                    \A e \in SlotEntries(id, LabelEnd) :
                        \E k \in 1..Len(regressions) :
                            /\ regressions[k].id = id
                            /\ regressions[k].start_log = Some(s.log)
                            /\ regressions[k].end_log = Some(e.log))

\* A record with both logs, and a further entry for its end slot refused.
C3_Witness ==
    /\ pc = "aborted"
    /\ panic = DuplicateSlotPanic
    /\ \E k \in 1..Len(regressions) :
          /\ regressions[k].start_log # None
          /\ regressions[k].end_log # None
          /\ Cardinality(SlotEntries(regressions[k].id, LabelEnd)) = 2

\* C4 as stated: no failing maintainer lookup ends the run.
C4_LookupFailureNeverAborts ==
    ~(/\ pc = "aborted"
      /\ last_lookup # None
      /\ last_lookup[1].net # "ok")

\* C4, amended: a cause-level lookup whose answer cannot be decoded is
\* recovered where it is made, the header of its bucket ends in "no owner?"
\* and rendering goes on; a failing per-crate lookup of the aggregation loop,
\* and a cause-level lookup whose request cannot be sent, end the run with
\* no report written.
C4_HeaderLookupRecovered ==
    last_lookup # None =>
        LET l == last_lookup[1]
        IN  /\ (l.site = "cause" /\ l.net = "json error") =>
                  /\ pc \in {"render", "done"}
                  /\ \E p \in 1..Len(table) :
                        /\ table[p].kind = "header"
                        /\ table[p].cause # Unknown
                        /\ table[p].cause.crate_name = l.name
                        /\ table[p].cc = NoOwner
            /\ (l.site = "crate" /\ l.net # "ok") =>
                  pc = "aborted" /\ crate_file = None /\ stdout = None
            /\ (l.site = "cause" /\ l.net = "send error") =>
                  pc = "aborted" /\ stdout = None

\* A finished report whose last header lookup could not be decoded.
C4_Witness ==
    /\ pc = "done"
    /\ last_lookup # None
    /\ last_lookup[1].site = "cause"
    /\ last_lookup[1].net = "json error"
    /\ \E p \in 1..Len(table) : table[p].kind = "header" /\ table[p].cc = NoOwner

IngestionPanics ==
    {Some("unexpected component"), Some("unknown toolchain"), DuplicateSlotPanic}

\* C5: an entry whose source kind is neither registry nor source-repo, an
\* entry whose toolchain label is neither configured name, and a second entry
\* for a populated slot each end the run during ingestion, and a run ended
\* there has written neither the crate list nor the report.
C5_MalformedInputFatal ==
    /\ \A e \in seen :
          e.kind \notin {"gh", "reg"} =>
              pc = "aborted" /\ panic = Some("unexpected component")
    /\ \A e \in seen :
          (/\ e.kind \in {"gh", "reg"}
           /\ toolchain_of_path(e.toolchain) \notin
                 {toolchain_name(config, "Start"), toolchain_name(config, "End")}) =>
              pc = "aborted" /\ panic = Some("unknown toolchain")
    /\ \A id \in SeenIds : \A label \in {LabelStart, LabelEnd} :
          Cardinality(SlotEntries(id, label)) >= 2 => pc = "aborted"
    /\ (pc = "aborted" /\ panic \in IngestionPanics) =>
          /\ crate_file = None
          /\ stdout = None
          /\ table = <<>>
          /\ rows = <<>>

\* Two entries ingested, then one of an unrecognised source kind.
C5_Witness ==
    /\ pc = "aborted"
    /\ panic = Some("unexpected component")
    /\ Len(regressions) = 2
    /\ Cardinality(seen) = 3

-----------------------------------------------------------------------------
\* The end of a report line names maintainers: it starts with "; cc ".
HasMention(line) ==
    /\ Len(line.cc) >= Len(CcPrefix)
    /\ SubSeq(line.cc, 1, Len(CcPrefix)) = CcPrefix

MentionLines == {p \in 1..Len(table) : table[p].kind \in {"root", "header", "detail"}}

\* C6 as stated: the root lines and the headers name maintainers exactly
\* under All and Roots, the detail lines exactly under All.
C6_MentionIffPolicy ==
    \A p \in MentionLines :
        IF table[p].kind = "detail"
        THEN HasMention(table[p]) <=> cc_ty = "All"
        ELSE HasMention(table[p]) <=> cc_ty \in {"All", "Roots"}

\* C6, amended: the line of a one-crate bucket names maintainers exactly
\* under All and Roots; the header of a multi-crate bucket ends in a mention
\* or in "no owner?" exactly under All and Roots, and in "no owner?" only
\* when the bucket is Unknown or its lookup was not decoded; a detail line
\* names maintainers exactly under All; under None no line has either.
C6_MentionGatedByPolicy ==
    \A p \in MentionLines :
        LET line == table[p]
        IN  /\ line.kind = "root" =>
                  (HasMention(line) <=> cc_ty \in {"All", "Roots"})
            /\ line.kind = "header" =>
                  /\ (HasMention(line) \/ line.cc = NoOwner) <=> cc_ty \in {"All", "Roots"}
                  /\ (line.cause = Unknown /\ cc_ty \in {"All", "Roots"}) =>
                        line.cc = NoOwner
            /\ line.kind = "detail" =>
                  (HasMention(line) <=> cc_ty = "All")
            /\ cc_ty = "None" => line.cc = <<>>

\* Under Roots: a header with a mention over detail lines without one, and
\* a root line with a mention.
C6_Witness ==
    /\ pc = "done"
    /\ cc_ty = "Roots"
    /\ \E p \in MentionLines : table[p].kind = "header" /\ HasMention(table[p])
    /\ \E p \in MentionLines : table[p].kind = "detail" /\ ~HasMention(table[p])
    /\ \E p \in MentionLines : table[p].kind = "root" /\ HasMention(table[p])

-----------------------------------------------------------------------------
\* The end-toolchain entries read so far, their ids and causes.
EndEntries == {e \in seen : e.kind \in {"gh", "reg"} /\ e.toolchain = LabelEnd}
IdOf(e) == CrateId_of_path(e).id
CauseOf(e) == ExpectedCause(IdOf(e), e.log)

\* C7: the table is a function of the set of entries read, whatever their
\* order of arrival: its buckets are the causes of the end logs in
\* SuspectedCause order (by variant, then by crate_name, Unknown last), and
\* a bucket holds the ids of the end logs of its cause in CrateId order.
C7_TableOfEntrySet ==
    AggregationFinished =>
        /\ {rows[b].cause : b \in 1..Len(rows)} = {CauseOf(e) : e \in EndEntries}
        /\ \A b \in 1..(Len(rows) - 1) :
              SuspectedCause_lt(rows[b].cause, rows[b + 1].cause)
        /\ \A b \in 1..Len(rows) :
              /\ {rows[b].affected[p].id : p \in 1..Len(rows[b].affected)}
                    = {IdOf(e) : e \in {x \in EndEntries : CauseOf(x) = rows[b].cause}}
              /\ \A p \in 1..(Len(rows[b].affected) - 1) :
                    CrateId_lt(rows[b].affected[p].id, rows[b].affected[p + 1].id)

\* A table of a named bucket before the Unknown bucket, one of them with a
\* registry crate before a source-repo crate.
C7_Witness ==
    /\ AggregationFinished
    /\ Len(rows) = 2
    /\ rows[1].cause # Unknown
    /\ rows[2].cause = Unknown
    /\ \E b \in 1..2 :
          /\ Len(rows[b].affected) = 2
          /\ rows[b].affected[1].id.tag = "CratesIo"
          /\ rows[b].affected[2].id.tag = "GitHub"

-----------------------------------------------------------------------------
\* The ids of the record store, one per line, the lines separated by NL.
ListedIds ==
    join([k \in 1..Len(regressions) |-> crate_list_id(regressions[k].id)], <<NL>>)

\* C8: the crate list written after aggregation holds every id of the record
\* store, one per line in record-store order, and does not end with a line
\* separator.
C8_CrateListTrimmed ==
    AggregationFinished =>
        /\ crate_file[1] = ListedIds
        /\ crate_file[1] # <<>> => crate_file[1][Len(crate_file[1])] # NL

-----------------------------------------------------------------------------
RowCount == Cardinality(UNION {Places(regressions[k].id) : k \in 1..Len(regressions)})

\* C9 as stated: every record is classified before the first one is put in
\* a bucket.
C9_ClassifyBeforeAggregate ==
    rows # <<>> => i = Len(regressions)

\* C9, amended: ingestion ends before the first record is classified;
\* classification and aggregation go record by record in one pass, a record
\* being put in its bucket before the next one is classified; that pass and
\* the crate list end before the first report line is rendered.
C9_PhasesInOrder ==
    /\ [][seen' # seen =>
            i = 0 /\ rows = <<>> /\ crate_list = <<>> /\ crate_file = None /\ table = <<>>]_vars
    /\ [](RowCount = i /\ i <= Len(regressions))
    /\ [][(i' # i \/ rows' # rows \/ crate_list' # crate_list) =>
            /\ i' = i + 1
            /\ regressions' = regressions
            /\ crate_file' = None
            /\ table' = <<>>]_vars
    /\ [][(table' # table \/ stdout' # stdout) =>
            /\ i = Len(regressions)
            /\ crate_file # None
            /\ <<seen, regressions, i, rows, crate_file>>' =
                  <<seen, regressions, i, rows, crate_file>>]_vars

\* A report of two buckets written after three records were aggregated.
C9_Witness ==
    /\ pc = "done"
    /\ i = 3
    /\ Len(rows) = 2
    /\ Len(stdout[1]) >= 2

-----------------------------------------------------------------------------
\* The crate's own name: the package of a registry crate, owner/name of a
\* source-repo crate.
OwnName(id) ==
    IF id.tag = "CratesIo"
    THEN id.package
    ELSE id.user \o <<SLASH>> \o id.repository

OnlyLibTestMarker(log) ==
    /\ HasLibTest(log)
    /\ \A p \in 1..Len(log) : log[p].m \in {"lib-test", "other"}

\* C10: the ids of a TestFailure or DocTestFailure bucket all have the
\* bucket's crate_name as their own name; a source-repo crate whose end log
\* has only the lib-test marker is alone in a TestFailure bucket of its own
\* name, and the report has one line for it, a root line.
C10_TestFailureOwnName ==
    /\ \A b \in 1..Len(rows) :
          rows[b].cause.tag \in {"TestFailure", "DocTestFailure"} =>
              \A p \in 1..Len(rows[b].affected) :
                  OwnName(rows[b].affected[p].id) = rows[b].cause.crate_name
    /\ \A k \in Processed :
          LET r == regressions[k]
          IN  (r.id.tag = "GitHub" /\ OnlyLibTestMarker(r.end_log[1])) =>
                  /\ \A bp \in Places(r.id) :
                        /\ rows[bp[1]].cause = TestFailure(OwnName(r.id))
                        /\ Len(rows[bp[1]].affected) = 1
                  /\ stdout # None =>
                        /\ Cardinality({p \in MentionLines :
                              table[p].kind # "header" /\ table[p].id = r.id}) = 1
                        /\ \E p \in MentionLines :
                              table[p].kind = "root" /\ table[p].id = r.id

\* A finished report with the root line of a source-repo crate filed under
\* TestFailure, and a TestFailure bucket shared by two registry crates.
C10_Witness ==
    /\ pc = "done"
    /\ \E b \in 1..Len(rows) :
          /\ rows[b].cause.tag = "TestFailure"
          /\ Len(rows[b].affected) = 1
          /\ rows[b].affected[1].id.tag = "GitHub"
    /\ \E b \in 1..Len(rows) :
          /\ rows[b].cause.tag = "TestFailure"
          /\ Len(rows[b].affected) = 2

====
